---- MODULE Spec2Model ----
(***************************************************************************)
(* Live Dither Wallpaper (src/main.cpp): image load, resampling and        *)
(* classification, the per-frame dither engine, the X11 renderer and the   *)
(* main loop with its frame limiter and stop flag.                         *)
(*                                                                         *)
(* Arithmetic.  The program computes in float; the model computes in       *)
(* fixed point: colours, probabilities and thresholds in thousandths,      *)
(* angles in milliradians, the animation clock in thousandths (0.016 is    *)
(* 16), wall-clock time in milliseconds.  The 32-bit RNG state is kept as  *)
(* a pair <<high 16 bits, low 16 bits>>.  Arrays are 0-based in the        *)
(* program and are sequences read through At here.                         *)
(***************************************************************************)
EXTENDS Integers, Sequences, FiniteSets

(* ------------------------------ bounds --------------------------------- *)
MaxScreenW == 3
MaxScreenH == 2
MaxPixelSize == 2
MaxFrames == 3
MaxTime == 2

(* ------------------------- program constants --------------------------- *)
PIXEL_BLACK == 0
PIXEL_ORANGE == 1
PIXEL_AMBIGUOUS == 2
BLACK_RGBA == <<0, 0, 0, 255>>
ORANGE_RGBA == <<255, 140, 0, 255>>
ORANGE == <<1000, 549, 0>>
AMBIG_LOW == 300
AMBIG_HIGH == 700
RngSeed == <<0, 12345>>
TimeStep == 16

(* ------------------------------ inputs --------------------------------- *)
\* Decoded rasters (stbi_load with 3 channels): width, height, bytes.
NoImage == [w |-> 0, h |-> 0, data |-> <<>>]
ImgBlack == [w |-> 1, h |-> 1, data |-> <<0, 0, 0>>]
ImgGray == [w |-> 1, h |-> 1, data |-> <<107, 107, 107>>]
ImgRows == [w |-> 1, h |-> 2, data |-> <<107, 107, 107, 0, 0, 0>>]
ImgEdge == [w |-> 2, h |-> 2,
            data |-> <<63, 63, 0, 160, 165, 0, 0, 0, 0, 255, 140, 0>>]
\* <<decoded image, brightness threshold>>
Inputs == {<<NoImage, 40>>, <<ImgBlack, 40>>, <<ImgGray, 40>>,
           <<ImgRows, 40>>, <<ImgRows, 0>>, <<ImgEdge, 0>>}
\* <<algorithm, chaos>>: static, random, wave without and with chaos
Strategies == {<<0, 0>>, <<1, 0>>, <<2, 0>>, <<2, 50>>}
FpsCaps == {0, 1000}

VARIABLES
  pc,                 \* position of main
  image,              \* what stbi_load returns for g_imagePath
  screenWidth, screenHeight,
  g_algorithm, g_threshold, g_pixelSize, g_maxFps, g_chaos,
  g_time, g_running,
  g_imgWidth, g_imgHeight, g_scaledWidth, g_scaledHeight,
  g_pixelStates, g_orangeProb, g_ambiguousIndices, g_scaledPixels,
  g_rngState,
  lastY, cachedSine, cachedChaos, invWidth,   \* statics of ditherFrame
  g_imageData,        \* X11 surface bytes (BGRX)
  now, lastFrameTime, \* locals of main, milliseconds
  exitStatus,
  calls               \* history: how often each operation has run

vars == <<pc, image, screenWidth, screenHeight, g_algorithm, g_threshold,
          g_pixelSize, g_maxFps, g_chaos, g_time, g_running, g_imgWidth,
          g_imgHeight, g_scaledWidth, g_scaledHeight, g_pixelStates,
          g_orangeProb, g_ambiguousIndices, g_scaledPixels, g_rngState,
          lastY, cachedSine, cachedChaos, invWidth, g_imageData, now,
          lastFrameTime, exitStatus, calls>>

config == <<image, screenWidth, screenHeight, g_algorithm, g_threshold,
            g_pixelSize, g_maxFps, g_chaos>>
classification == <<g_imgWidth, g_imgHeight, g_scaledWidth, g_scaledHeight,
                    g_pixelStates, g_orangeProb, g_ambiguousIndices>>
engine == <<g_scaledPixels, g_rngState, g_time, lastY, cachedSine,
            cachedChaos, invWidth>>

(* ------------------------------ helpers -------------------------------- *)
At(s, i) == s[i + 1]

RECURSIVE SqrtIter(_, _, _)
SqrtIter(n, lo, hi) ==
  IF lo >= hi THEN lo
  ELSE LET mid == (lo + hi + 1) \div 2
       IN  IF mid * mid <= n THEN SqrtIter(n, mid, hi)
           ELSE SqrtIter(n, lo, mid - 1)
\* sqrtf on thousandths: argument in millionths, result in thousandths
Sqrtf(n) == SqrtIter(n, 0, 2000)

\* bit w (a power of two) of a ^ b
XorBit(a, b, w) == (((a \div w) + (b \div w)) % 2) * w
\* a ^ b on 16-bit values
Xor16(a, b) ==
  XorBit(a, b, 1) + XorBit(a, b, 2) + XorBit(a, b, 4)
  + XorBit(a, b, 8) + XorBit(a, b, 16) + XorBit(a, b, 32)
  + XorBit(a, b, 64) + XorBit(a, b, 128) + XorBit(a, b, 256)
  + XorBit(a, b, 512) + XorBit(a, b, 1024) + XorBit(a, b, 2048)
  + XorBit(a, b, 4096) + XorBit(a, b, 8192) + XorBit(a, b, 16384)
  + XorBit(a, b, 32768)

(* ------------------------ fastRand / fastRandFloat --------------------- *)
\* x << k and x >> k on the 32-bit state <<hi, lo>>
Shl13(s) == <<(s[1] % 8) * 8192 + (s[2] \div 8), (s[2] % 8) * 8192>>
Shr17(s) == <<0, s[1] \div 2>>
Shl5(s) == <<(s[1] % 2048) * 32 + (s[2] \div 2048), (s[2] % 2048) * 32>>
Xor32(a, b) == <<Xor16(a[1], b[1]), Xor16(a[2], b[2])>>

\* the three statements of fastRand
RandStep1(s) == Xor32(s, Shl13(s))
RandStep2(s) == Xor32(s, Shr17(s))
RandStep3(s) == Xor32(s, Shl5(s))

\* the new g_rngState, which fastRand also returns
fastRand(s) == RandStep3(RandStep2(RandStep1(s)))

\* the numerator of fastRandFloat: (fastRand() & 0xFFFF), to be divided by
\* 65535.0f; the argument is the state fastRand has just returned
RandBits(s) == s[2]
RandDivisor == 65535
\* fastRandFloat() in thousandths, rounded down
fastRandFloat(s) == (RandBits(s) * 1000) \div RandDivisor

(* ----------------------- loadAndPrepareImage --------------------------- *)
\* bilinear sample of channel c (0..2) for target cell (sx, sy), thousandths
Resample(img, W1, H1, sx, sy, c) ==
  LET x0 == (sx * img.w) \div W1
      y0 == (sy * img.h) \div H1
      x1 == IF x0 + 1 < img.w THEN x0 + 1 ELSE x0
      y1 == IF y0 + 1 < img.h THEN y0 + 1 ELSE y0
      fx == (sx * img.w) % W1          \* fx * W1
      fy == (sy * img.h) % H1          \* fy * H1
      d00 == At(img.data, (y0 * img.w + x0) * 3 + c)
      d01 == At(img.data, (y0 * img.w + x1) * 3 + c)
      d10 == At(img.data, (y1 * img.w + x0) * 3 + c)
      d11 == At(img.data, (y1 * img.w + x1) * 3 + c)
      sum == d00 * (W1 - fx) * (H1 - fy) + d01 * fx * (H1 - fy)
             + d10 * (W1 - fx) * fy + d11 * fx * fy
  IN  (sum * 1000) \div (255 * W1 * H1)

\* the brightness cutoff: TRUE when the triple is forced to black
BelowThreshold(r, g, b, threshold) ==
  /\ threshold > 0
  /\ (299 * r + 587 * g + 114 * b) * 255 < threshold * 1000000

\* imgFloat entry of target cell (sx, sy): <<r, g, b>> in thousandths
CellColor(img, W1, H1, sx, sy, threshold) ==
  LET r == Resample(img, W1, H1, sx, sy, 0)
      g == Resample(img, W1, H1, sx, sy, 1)
      b == Resample(img, W1, H1, sx, sy, 2)
  IN  IF BelowThreshold(r, g, b, threshold) THEN <<0, 0, 0>> ELSE <<r, g, b>>

\* orangeProb of a colour triple, thousandths
OrangeProbOf(rgb) ==
  LET r == rgb[1]
      g == rgb[2]
      b == rgb[3]
      distBlack == Sqrtf(r * r + g * g + b * b)
      distOrange == Sqrtf((r - ORANGE[1]) * (r - ORANGE[1])
                          + (g - ORANGE[2]) * (g - ORANGE[2]) + b * b)
      totalDist == distBlack + distOrange
  IN  IF totalDist > 1 THEN (distBlack * 1000) \div totalDist ELSE 500

\* variant: the boundary values fall into the outer bands
ClassifyClosedBands(prob) ==
  IF prob <= AMBIG_LOW THEN PIXEL_BLACK
  ELSE IF prob >= AMBIG_HIGH THEN PIXEL_ORANGE
  ELSE PIXEL_AMBIGUOUS

\* the three-way split of the classification loop
Classify(prob) ==
  IF prob < AMBIG_LOW THEN PIXEL_BLACK
  ELSE IF prob > AMBIG_HIGH THEN PIXEL_ORANGE
  ELSE PIXEL_AMBIGUOUS

\* orangeProb of target cell pixIdx of a W1 x H1 grid
ProbAt(img, W1, H1, threshold, pixIdx) ==
  OrangeProbOf(CellColor(img, W1, H1, pixIdx % W1, pixIdx \div W1, threshold))

\* orangeProb of every cell of the W1 x H1 grid, in scan order
ProbsOf(img, W1, H1, threshold) ==
  [i \in 1..(W1 * H1) |-> ProbAt(img, W1, H1, threshold, i - 1)]

\* g_pixelStates after the classification loop
StatesOf(probs) == [i \in 1..Len(probs) |-> Classify(probs[i])]

\* g_orangeProb after the classification loop: resize() zero-fills, and
\* only the ambiguous branch stores
StoredProbs(probs) ==
  [i \in 1..Len(probs) |->
     IF Classify(probs[i]) = PIXEL_AMBIGUOUS THEN probs[i] ELSE 0]

\* variant: the scan runs from the last cell to the first
AmbiguousReversed(states) ==
  SelectSeq([i \in 1..Len(states) |-> Len(states) - i],
            LAMBDA p : At(states, p) = PIXEL_AMBIGUOUS)

\* g_ambiguousIndices: push_back in the row-major scan
AmbiguousOf(states) ==
  SelectSeq([i \in 1..Len(states) |-> i - 1],
            LAMBDA p : At(states, p) = PIXEL_AMBIGUOUS)

\* the colour the initialisation loop writes for a cell state
InitColor(state) == IF state = PIXEL_BLACK THEN BLACK_RGBA ELSE ORANGE_RGBA

\* g_scaledPixels after the initialisation loop
InitPixels(states) ==
  [i \in 1..(4 * Len(states)) |->
     InitColor(At(states, (i - 1) \div 4))[((i - 1) % 4) + 1]]

(* ----------------------------- ditherFrame ----------------------------- *)
Pi == 3142
TwoPi == 6283
\* sine of an angle in 0..Pi milliradians, thousandths (Bhaskara's formula)
SinHalf(a) ==
  LET q == a * (Pi - a)
  IN  (16 * q) \div ((5 * Pi * Pi - 4 * q) \div 1000)
\* sinf(phase): milliradians to thousandths
Sinf(phase) ==
  LET a == phase % TwoPi
  IN  IF a <= Pi THEN SinHalf(a) ELSE 0 - SinHalf(a - Pi)

\* wavePhase = y * 0.8f - g_time * 2.0f, milliradians
WavePhase(y, time) == y * 800 - time * 2

\* invWidth = 2.0f / g_scaledWidth, millionths
InvWidthOf(width) == 2000000 \div width

\* normalizedX = x * invWidth - 1.0f, thousandths
NormalizedX(x, invW) == (x * invW) \div 1000 - 1000

\* waveThreshold before the chaos blend, in ten-thousandths
WaveThreshold(prob, x, sine, invW) ==
  prob * 10 + (NormalizedX(x, invW) - sine) * 3

\* randomThreshold = prob + (fastRandFloat() - 0.5f) * 0.4f, ten-thousandths
RandomThreshold(prob, u) == prob * 10 + (u - 500) * 4

\* waveThreshold * (1 - chaos) + randomThreshold * chaos, chaos in percent;
\* the result is in millionths
Blend(wave, random, chaos) == wave * (100 - chaos) + random * chaos

\* the engine state ditherFrame reads and writes
EngineState ==
  [pix |-> g_scaledPixels, rng |-> g_rngState, time |-> g_time,
   lastY |-> lastY, cachedSine |-> cachedSine, cachedChaos |-> cachedChaos,
   invWidth |-> invWidth]

\* variant: only the first byte of the cell is copied
PutCellTorn(pix, pixIdx, rgba) ==
  [i \in 1..Len(pix) |->
     IF i - 1 = 4 * pixIdx THEN rgba[1] ELSE pix[i]]

\* memcpy(&g_scaledPixels[pixIdx * 4], rgba, 4)
PutCell(pix, pixIdx, rgba) ==
  [i \in 1..Len(pix) |->
     IF (i - 1) \div 4 = pixIdx THEN rgba[((i - 1) % 4) + 1] ELSE pix[i]]

\* the random branch of the loop body
RandomCell(st, pixIdx) ==
  LET r == fastRand(st.rng)
      isOrange == fastRandFloat(r) < At(g_orangeProb, pixIdx)
  IN  [st EXCEPT !.rng = r,
                 !.pix = PutCell(st.pix, pixIdx,
                                 IF isOrange THEN ORANGE_RGBA ELSE BLACK_RGBA)]

\* the per-row statics after the "if (y != lastY)" block
RowCache(st, y) ==
  IF y # st.lastY
  THEN [st EXCEPT !.cachedSine = Sinf(WavePhase(y, st.time)),
                  !.cachedChaos = g_chaos,
                  !.invWidth = InvWidthOf(g_scaledWidth),
                  !.lastY = y]
  ELSE st

\* variant: the wave branch draws whatever the chaos
WaveCellAlwaysDraws(st, pixIdx) ==
  LET x == pixIdx % g_scaledWidth
      y == pixIdx \div g_scaledWidth
      c == RowCache(st, y)
      prob == At(g_orangeProb, pixIdx)
      wave == WaveThreshold(prob, x, c.cachedSine, c.invWidth)
      r == fastRand(c.rng)
      total == Blend(wave, RandomThreshold(prob, fastRandFloat(r)),
                     c.cachedChaos)
      isOrange == total > 500000
  IN  [c EXCEPT !.rng = r,
                !.pix = PutCell(c.pix, pixIdx,
                                IF isOrange THEN ORANGE_RGBA ELSE BLACK_RGBA)]

\* the wave branch of the loop body
WaveCell(st, pixIdx) ==
  LET x == pixIdx % g_scaledWidth
      y == pixIdx \div g_scaledWidth
      c == RowCache(st, y)
      prob == At(g_orangeProb, pixIdx)
      wave == WaveThreshold(prob, x, c.cachedSine, c.invWidth)
      draws == c.cachedChaos > 0
      r == IF draws THEN fastRand(c.rng) ELSE c.rng
      total == IF draws
               THEN Blend(wave, RandomThreshold(prob, fastRandFloat(r)),
                          c.cachedChaos)
               ELSE wave * 100
      isOrange == total > 500000
  IN  [c EXCEPT !.rng = r,
                !.pix = PutCell(c.pix, pixIdx,
                                IF isOrange THEN ORANGE_RGBA ELSE BLACK_RGBA)]

\* one iteration of "for (int pixIdx : g_ambiguousIndices)"
DitherCell(st, pixIdx) ==
  IF g_algorithm = 1 THEN RandomCell(st, pixIdx) ELSE WaveCell(st, pixIdx)

\* the loop over the index list, from position k on
RECURSIVE DitherLoop(_, _, _)
DitherLoop(st, indices, k) ==
  IF k > Len(indices) THEN st
  ELSE DitherLoop(DitherCell(st, indices[k]), indices, k + 1)

\* variant: the clock is not advanced
ClockStalls(time) == time

\* the animation clock after the frame's cells have been processed
AdvanceClock(time) == time + TimeStep

\* variant: the loop runs over every cell instead of the index list
DitherEveryCell(st) ==
  IF g_algorithm = 0 THEN st
  ELSE LET all == [i \in 1..Len(g_pixelStates) |-> i - 1]
           done == DitherLoop(st, all, 1)
       IN  [done EXCEPT !.time = AdvanceClock(done.time)]

\* variant: no early return for the static strategy
DitherNoStaticReturn(st) ==
  LET done == DitherLoop(st, g_ambiguousIndices, 1)
  IN  [done EXCEPT !.time = AdvanceClock(done.time)]

\* ditherFrame() as a function of the engine state
DitherFrameOf(st) ==
  IF g_algorithm = 0 THEN st
  ELSE LET done == DitherLoop(st, g_ambiguousIndices, 1)
       IN  [done EXCEPT !.time = AdvanceClock(done.time)]

(* ---------------------------- platformRender -------------------------- *)
\* variant: the surface coordinate is not divided by the block size
SourceCoordUnscaled(v, scaled) ==
  IF v >= scaled THEN scaled - 1 ELSE v

\* the target cell a surface pixel coordinate samples, after the clamp
SourceCoord(v, scaled) ==
  LET src == v \div g_pixelSize
  IN  IF src >= scaled THEN scaled - 1 ELSE src

\* srcIdx of surface pixel (x, y)
SrcIdx(x, y) ==
  (SourceCoord(y, g_scaledHeight) * g_scaledWidth
   + SourceCoord(x, g_scaledWidth)) * 4

\* byte k (0..3) of the BGRX pixel copied from g_scaledPixels[srcIdx ..]
Bgrx(pix, srcIdx, k) ==
  CASE k = 0 -> At(pix, srcIdx + 2)
    [] k = 1 -> At(pix, srcIdx + 1)
    [] k = 2 -> At(pix, srcIdx)
    [] OTHER -> 0

\* g_imageData after platformRender
RenderOf(pix) ==
  [i \in 1..(g_imgWidth * g_imgHeight * 4) |->
     LET dst == (i - 1) \div 4
         x == dst % g_imgWidth
         y == dst \div g_imgWidth
         srcIdx == (SourceCoord(y, g_scaledHeight) * g_scaledWidth
                    + SourceCoord(x, g_scaledWidth)) * 4
     IN  Bgrx(pix, srcIdx, (i - 1) % 4)]

(* --------------------------------- main -------------------------------- *)
\* targetFrameTime in milliseconds
TargetFrameTime == IF g_maxFps > 0 THEN 1000 \div g_maxFps ELSE 0

\* variant: a frame is due only once more than the interval has elapsed
FrameDueStrict(el) == g_maxFps = 0 \/ el > TargetFrameTime

\* the frame limiter's test
FrameDue(el) == g_maxFps = 0 \/ el >= TargetFrameTime

\* values platformGetTime may return after having returned t
ReadTime(t) == t..MaxTime

NoCalls ==
  [load |-> 0, dither |-> 0, render |-> 0, cleanup |-> 0, stopped |-> 0,
   iterDither |-> 0, iterRender |-> 0, due |-> FALSE, last |-> "none"]

Init ==
  /\ pc = "load"
  /\ \E in \in Inputs : image = in[1] /\ g_threshold = in[2]
  /\ screenWidth \in 1..MaxScreenW
  /\ screenHeight \in 1..MaxScreenH
  /\ \E s \in Strategies : g_algorithm = s[1] /\ g_chaos = s[2]
  /\ g_pixelSize \in 1..MaxPixelSize
  /\ g_maxFps \in FpsCaps
  /\ g_time = 0
  /\ g_running = TRUE
  /\ g_imgWidth = 0 /\ g_imgHeight = 0
  /\ g_scaledWidth = 0 /\ g_scaledHeight = 0
  /\ g_pixelStates = <<>> /\ g_orangeProb = <<>>
  /\ g_ambiguousIndices = <<>> /\ g_scaledPixels = <<>>
  /\ g_rngState = RngSeed
  /\ lastY = -1 /\ cachedSine = 0 /\ cachedChaos = 0 /\ invWidth = 0
  /\ g_imageData = [i \in 1..(screenWidth * screenHeight * 4) |-> 0]
  /\ now = 0 /\ lastFrameTime = 0
  /\ exitStatus = -1
  /\ calls = NoCalls

\* loadAndPrepareImage(g_imagePath, screenWidth, screenHeight)
Load ==
  /\ pc = "load"
  /\ pc' = "check"
  /\ calls' = [calls EXCEPT !.load = @ + 1, !.last = "load"]
  /\ IF image = NoImage
     THEN UNCHANGED classification /\ UNCHANGED g_scaledPixels
     ELSE \E W1 \in {screenWidth \div g_pixelSize},
             H1 \in {screenHeight \div g_pixelSize} :
          \E probs \in {ProbsOf(image, W1, H1, g_threshold)} :
              /\ g_imgWidth' = screenWidth
              /\ g_imgHeight' = screenHeight
              /\ g_scaledWidth' = W1
              /\ g_scaledHeight' = H1
              /\ g_pixelStates' = StatesOf(probs)
              /\ g_orangeProb' = StoredProbs(probs)
              /\ g_ambiguousIndices' = AmbiguousOf(StatesOf(probs))
              /\ g_scaledPixels' = InitPixels(StatesOf(probs))
  /\ UNCHANGED <<config, g_time, g_running, g_rngState, lastY, cachedSine,
                 cachedChaos, invWidth, g_imageData, now, lastFrameTime,
                 exitStatus>>

\* variant: the emptiness test is missing
CheckWithoutTest ==
  /\ pc = "check"
  /\ pc' = "loop"
  /\ now' \in ReadTime(now)
  /\ lastFrameTime' = now'
  /\ UNCHANGED <<config, classification, engine, g_running, g_imageData,
                 exitStatus, calls>>

\* "if (g_pixelStates.empty())" and, past it, the first platformGetTime
Check ==
  /\ pc = "check"
  /\ IF g_pixelStates = <<>>
     THEN pc' = "fail" /\ UNCHANGED <<now, lastFrameTime>>
     ELSE /\ pc' = "loop"
          /\ now' \in ReadTime(now)
          /\ lastFrameTime' = now'
  /\ UNCHANGED <<config, classification, engine, g_running, g_imageData,
                 exitStatus, calls>>

\* the failure branch: platformCleanup(); return 1
Fail ==
  /\ pc = "fail"
  /\ pc' = "done"
  /\ exitStatus' = 1
  /\ calls' = [calls EXCEPT !.cleanup = @ + 1, !.last = "cleanup"]
  /\ UNCHANGED <<config, classification, engine, g_running, g_imageData,
                 now, lastFrameTime>>

\* "while (g_running)"
LoopTest ==
  /\ pc = "loop"
  /\ IF g_running
     THEN /\ calls.dither < MaxFrames
          /\ pc' = "poll"
          /\ calls' = [calls EXCEPT !.iterDither = 0, !.iterRender = 0,
                                    !.due = FALSE]
     ELSE pc' = "exit" /\ UNCHANGED calls
  /\ UNCHANGED <<config, classification, engine, g_running, g_imageData,
                 now, lastFrameTime, exitStatus>>

\* platformPollEvents(): a DestroyNotify event clears the flag
Poll ==
  /\ pc = "poll"
  /\ pc' = "gate"
  /\ \E destroyed \in BOOLEAN :
       g_running' = IF destroyed THEN FALSE ELSE g_running
  /\ UNCHANGED <<config, classification, engine, g_imageData, now,
                 lastFrameTime, exitStatus, calls>>

\* variant: the flag is read again after the events were polled
GateReadsFlag ==
  /\ pc = "gate"
  /\ IF g_running
     THEN /\ now' \in ReadTime(now)
          /\ LET elapsed == now' - lastFrameTime
             IN  /\ pc' = IF FrameDue(elapsed) THEN "dither" ELSE "sleep"
                 /\ calls' = [calls EXCEPT !.due = FrameDue(elapsed)]
     ELSE pc' = "exit" /\ UNCHANGED <<now, calls>>
  /\ UNCHANGED <<config, classification, engine, g_running, g_imageData,
                 lastFrameTime, exitStatus>>

\* now = platformGetTime(); elapsed = now - lastFrameTime; the limiter's if
Gate ==
  /\ pc = "gate"
  /\ now' \in ReadTime(now)
  /\ LET elapsed == now' - lastFrameTime
     IN  /\ pc' = IF FrameDue(elapsed) THEN "dither" ELSE "sleep"
         /\ calls' = [calls EXCEPT !.due = FrameDue(elapsed)]
  /\ UNCHANGED <<config, classification, engine, g_running, g_imageData,
                 lastFrameTime, exitStatus>>

\* variant: the animation clock follows the wall clock
DitherOnWallClock ==
  /\ pc = "dither"
  /\ pc' = "render"
  /\ \E st \in {DitherFrameOf(EngineState)} :
         /\ g_scaledPixels' = st.pix
         /\ g_rngState' = st.rng
         /\ g_time' = IF g_algorithm = 0 THEN g_time
                      ELSE g_time + (now - lastFrameTime)
         /\ lastY' = st.lastY
         /\ cachedSine' = st.cachedSine
         /\ cachedChaos' = st.cachedChaos
         /\ invWidth' = st.invWidth
  /\ calls' = [calls EXCEPT !.dither = @ + 1, !.iterDither = @ + 1,
                            !.stopped = IF g_running THEN @ ELSE @ + 1,
                            !.last = "dither"]
  /\ UNCHANGED <<config, classification, g_running, g_imageData, now,
                 lastFrameTime, exitStatus>>

\* ditherFrame()
Dither ==
  /\ pc = "dither"
  /\ pc' = "render"
  /\ \E st \in {DitherFrameOf(EngineState)} :
         /\ g_scaledPixels' = st.pix
         /\ g_rngState' = st.rng
         /\ g_time' = st.time
         /\ lastY' = st.lastY
         /\ cachedSine' = st.cachedSine
         /\ cachedChaos' = st.cachedChaos
         /\ invWidth' = st.invWidth
  /\ calls' = [calls EXCEPT !.dither = @ + 1, !.iterDither = @ + 1,
                            !.stopped = IF g_running THEN @ ELSE @ + 1,
                            !.last = "dither"]
  /\ UNCHANGED <<config, classification, g_running, g_imageData, now,
                 lastFrameTime, exitStatus>>

\* platformRender(); lastFrameTime = now
Render ==
  /\ pc = "render"
  /\ pc' = "loop"
  /\ g_imageData' = RenderOf(g_scaledPixels)
  /\ lastFrameTime' = now
  /\ calls' = [calls EXCEPT !.render = @ + 1, !.iterRender = @ + 1,
                            !.last = "render"]
  /\ UNCHANGED <<config, classification, engine, g_running, now,
                 exitStatus>>

\* the else branch: sleepMs = (targetFrameTime - elapsed) * 1000
Sleep ==
  /\ pc = "sleep"
  /\ pc' = "loop"
  /\ LET sleepMs == TargetFrameTime - (now - lastFrameTime)
     IN  calls' = [calls EXCEPT !.last = IF sleepMs > 0 THEN "sleep" ELSE @]
  /\ UNCHANGED <<config, classification, engine, g_running, g_imageData,
                 now, lastFrameTime, exitStatus>>

\* after the loop: restoreXfconfSettings(); platformCleanup(); return 0
Exit ==
  /\ pc = "exit"
  /\ pc' = "done"
  /\ exitStatus' = 0
  /\ calls' = [calls EXCEPT !.cleanup = @ + 1, !.last = "cleanup"]
  /\ UNCHANGED <<config, classification, engine, g_running, g_imageData,
                 now, lastFrameTime>>

\* signalHandler(SIGINT or SIGTERM), at any point of main
Signal ==
  /\ pc # "done"
  /\ g_running
  /\ g_running' = FALSE
  /\ UNCHANGED <<pc, config, classification, engine, g_imageData, now,
                 lastFrameTime, exitStatus, calls>>

Next ==
  \/ Load
  \/ Check
  \/ Fail
  \/ LoopTest
  \/ Poll
  \/ Gate
  \/ Dither
  \/ Render
  \/ Sleep
  \/ Exit
  \/ Signal

Spec == Init /\ [][Next]_vars

\* the steps of main; the signal handler is the environment's
Main ==
  \/ Load
  \/ Check
  \/ Fail
  \/ LoopTest
  \/ Poll
  \/ Gate
  \/ Dither
  \/ Render
  \/ Sleep
  \/ Exit

\* The stop flag is independent of what is drawn: one screen, one strategy,
\* a decodable and an undecodable image, both frame caps.
InitStop ==
  /\ Init
  /\ image \in {ImgGray, NoImage}
  /\ screenWidth = 2 /\ screenHeight = 1 /\ g_pixelSize = 1
  /\ g_algorithm = 2 /\ g_chaos = 0

\* main keeps running: every statement of it terminates
SpecStop == InitStop /\ [][Next]_vars /\ WF_vars(Main)

(* ---------------------- a run picked up after many frames -------------- *)
\* g_rngState after the given number of fastRand calls from the seed
LateStarts ==
  {[draws |-> 1031, rng |-> <<1320, 41547>>],
   [draws |-> 1032, rng |-> <<15704, 38299>>],
   [draws |-> 1033, rng |-> <<53911, 44974>>]}

\* The random strategy on ImgGray, one target cell, at the top of the main
\* loop after late.draws frames (one draw each); calls counts from here.
InitLate ==
  /\ pc = "loop"
  /\ image = ImgGray /\ g_threshold = 40
  /\ screenWidth = 1 /\ screenHeight = 1 /\ g_pixelSize = 1
  /\ g_algorithm = 1 /\ g_chaos = 0
  /\ g_maxFps \in FpsCaps
  /\ g_running = TRUE
  /\ g_imgWidth = 1 /\ g_imgHeight = 1
  /\ g_scaledWidth = 1 /\ g_scaledHeight = 1
  /\ \E probs \in {ProbsOf(ImgGray, 1, 1, 40)} :
       /\ g_pixelStates = StatesOf(probs)
       /\ g_orangeProb = StoredProbs(probs)
       /\ g_ambiguousIndices = AmbiguousOf(StatesOf(probs))
  /\ \E late \in LateStarts :
       /\ g_rngState = late.rng
       /\ g_time = TimeStep * late.draws
       /\ g_scaledPixels =
            IF fastRandFloat(late.rng) < g_orangeProb[1]
            THEN ORANGE_RGBA ELSE BLACK_RGBA
  /\ lastY = -1 /\ cachedSine = 0 /\ cachedChaos = 0 /\ invWidth = 0
  /\ g_imageData = RenderOf(g_scaledPixels)
  /\ now \in 0..MaxTime /\ lastFrameTime = now
  /\ exitStatus = -1
  /\ calls = [NoCalls EXCEPT !.load = 1, !.last = "render"]

NextLate ==
  \/ LoopTest
  \/ Poll
  \/ Gate
  \/ Dither
  \/ Render
  \/ Sleep
  \/ Exit
  \/ Signal

SpecLate == InitLate /\ [][NextLate]_vars

(* ------------------- screens that are not a block multiple ------------- *)
\* <<screen width, screen height, block size>>: two cells across with and
\* without a remainder strip, a remainder strip below, and an empty grid
RenderCases ==
  {<<4, 2, 2>>, <<5, 2, 2>>, <<5, 3, 2>>, <<4, 4, 2>>, <<3, 2, 1>>,
   <<1, 1, 2>>}

\* the program started on one of those screens
InitRender ==
  /\ pc = "load"
  /\ image = ImgEdge /\ g_threshold = 0
  /\ \E c \in RenderCases :
        screenWidth = c[1] /\ screenHeight = c[2] /\ g_pixelSize = c[3]
  /\ g_algorithm \in {0, 1} /\ g_chaos = 0
  /\ g_maxFps \in FpsCaps
  /\ g_time = 0
  /\ g_running = TRUE
  /\ g_imgWidth = 0 /\ g_imgHeight = 0
  /\ g_scaledWidth = 0 /\ g_scaledHeight = 0
  /\ g_pixelStates = <<>> /\ g_orangeProb = <<>>
  /\ g_ambiguousIndices = <<>> /\ g_scaledPixels = <<>>
  /\ g_rngState = RngSeed
  /\ lastY = -1 /\ cachedSine = 0 /\ cachedChaos = 0 /\ invWidth = 0
  /\ g_imageData = [i \in 1..(screenWidth * screenHeight * 4) |-> 0]
  /\ now = 0 /\ lastFrameTime = 0
  /\ exitStatus = -1
  /\ calls = NoCalls

SpecRender == InitRender /\ [][Next]_vars

(* ------------------------------ properties ----------------------------- *)
\* classification has completed
Ready == g_pixelStates # <<>>
Cells == 0..(Len(g_pixelStates) - 1)
\* the four buffer bytes of a cell
CellBytes(pix, p) == <<At(pix, 4 * p), At(pix, 4 * p + 1),
                       At(pix, 4 * p + 2), At(pix, 4 * p + 3)>>
Listed(p) == \E k \in 1..Len(g_ambiguousIndices) : g_ambiguousIndices[k] = p
\* x and y of a cell, and the probability classification computed for it
Column(p) == p % g_scaledWidth
Row(p) == p \div g_scaledWidth
ComputedProb(p) ==
  ProbAt(image, g_scaledWidth, g_scaledHeight, g_threshold, p)

(* C1: once loadAndPrepareImage has completed, under every strategy and
   after any number of ditherFrame calls, every cell classified Black holds
   BLACK_RGBA and every cell classified Accent holds ORANGE_RGBA; and a
   ditherFrame call changes no byte of a cell that is not in the uncertain
   index list. *)
FixedCellsHold ==
  Ready =>
    \A p \in Cells :
      /\ At(g_pixelStates, p) = PIXEL_BLACK
           => CellBytes(g_scaledPixels, p) = BLACK_RGBA
      /\ At(g_pixelStates, p) = PIXEL_ORANGE
           => CellBytes(g_scaledPixels, p) = ORANGE_RGBA
DitherWritesListedOnly ==
  pc = "dither" /\ pc' = "render" =>
    /\ Len(g_scaledPixels') = Len(g_scaledPixels)
    /\ \A p \in Cells :
         CellBytes(g_scaledPixels', p) # CellBytes(g_scaledPixels, p)
           => Listed(p)
C1_FixedCellsKeepColor ==
  []FixedCellsHold /\ [][DitherWritesListedOnly]_vars
\* frames have run over a grid with Black, Accent and Uncertain cells and
\* have changed the buffer
C1_Witness ==
  /\ Ready /\ calls.dither >= 2 /\ g_algorithm # 0
  /\ \E p \in Cells : At(g_pixelStates, p) = PIXEL_BLACK
  /\ \E p \in Cells : At(g_pixelStates, p) = PIXEL_ORANGE
  /\ g_ambiguousIndices # <<>>
  /\ g_scaledPixels # InitPixels(g_pixelStates)

(* C3: under the static strategy the output buffer after any number of
   ditherFrame calls is byte-for-byte the buffer that classification
   wrote. *)
C3_StaticBufferFrozen ==
  Ready /\ g_algorithm = 0 => g_scaledPixels = InitPixels(g_pixelStates)
\* static frames have run over a grid that has uncertain cells
C3_Witness ==
  /\ Ready /\ g_algorithm = 0 /\ calls.dither >= 2
  /\ g_ambiguousIndices # <<>>

(* C5 as stated: every ditherFrame call, whichever the strategy, advances
   the animation clock by 0.016, so the clock is 0.016 times the number of
   calls. *)
C5_ClockCountsEveryCall == g_time = TimeStep * calls.dither
(* C5 amended: every ditherFrame call under the random and wave strategies
   adds 0.016 to the clock, whatever wall-clock time elapsed; under the
   static strategy ditherFrame returns before the addition and the clock
   stays at its initial value; the clock never decreases. *)
ClockCountsAnimatedCalls ==
  g_time = IF g_algorithm = 0 THEN 0 ELSE TimeStep * calls.dither
C5_ClockAdvancesWhenAnimated ==
  []ClockCountsAnimatedCalls /\ [][g_time' >= g_time]_vars
\* two throttled frames of an animated strategy, with wall-clock time passed
C5_Witness ==
  /\ g_algorithm # 0 /\ g_maxFps > 0 /\ calls.dither >= 2
  /\ g_time = 2 * TimeStep /\ now > 0

(* C6: classification gives every target cell exactly one state: Black iff
   prob < 0.3, Accent iff prob > 0.7, Uncertain iff 0.3 <= prob <= 0.7; an
   Uncertain cell's stored probability is that prob, within [0.3, 0.7]
   (stated of the arrays as the load leaves them); and once classified, no
   step changes a cell's state or stored probability, the grid or the
   configuration. *)
Partitioned ==
  Ready /\ pc = "check" =>
    /\ Len(g_pixelStates) = g_scaledWidth * g_scaledHeight
    /\ Len(g_orangeProb) = Len(g_pixelStates)
    /\ \A p \in Cells :
         \A prob \in {ComputedProb(p)}, state \in {At(g_pixelStates, p)} :
             /\ state \in {PIXEL_BLACK, PIXEL_ORANGE, PIXEL_AMBIGUOUS}
             /\ state = PIXEL_BLACK <=> prob < 300
             /\ state = PIXEL_ORANGE <=> prob > 700
             /\ state = PIXEL_AMBIGUOUS <=> (300 <= prob /\ prob <= 700)
             /\ state = PIXEL_AMBIGUOUS =>
                  /\ At(g_orangeProb, p) = prob
                  /\ 300 <= At(g_orangeProb, p)
                  /\ At(g_orangeProb, p) <= 700
C6_ClassificationPartition ==
  /\ []Partitioned
  /\ [][Ready => UNCHANGED <<g_pixelStates, g_orangeProb, g_scaledWidth,
                              g_scaledHeight, config>>]_vars
\* frames have run over a grid with cells at both boundaries and in both
\* outer bands
C6_Witness ==
  /\ Ready /\ calls.dither >= 2 /\ g_algorithm # 0
  /\ \E p \in Cells : ComputedProb(p) = 300
  /\ \E p \in Cells : ComputedProb(p) = 700
  /\ \E p \in Cells : ComputedProb(p) < 300
  /\ \E p \in Cells : ComputedProb(p) > 700

(* C2 as stated: under the wave strategy with chaos = 0, in every frame
   every uncertain cell at column x, row y becomes Accent iff
   storedProbability + (normalizedX - sin(y*0.8 - clock*2.0)) * 0.3 > 0.5
   with clock the animation clock during that frame, whatever earlier
   frames did. *)
WaveAccent(x, y, clock, prob) ==
  WaveThreshold(prob, x, Sinf(WavePhase(y, clock)),
                InvWidthOf(g_scaledWidth)) > 5000
C2_WaveIsPureFunction ==
  pc = "render" /\ g_algorithm = 2 /\ g_chaos = 0 =>
    \A p \in Cells :
      Listed(p) =>
        CellBytes(g_scaledPixels, p) =
          IF WaveAccent(Column(p), Row(p), g_time - TimeStep,
                        At(g_orangeProb, p))
          THEN ORANGE_RGBA ELSE BLACK_RGBA

(* C4 as stated: under the random strategy the draw u of fastRandFloat
   lies in [0,1) and the cell becomes Accent iff u < storedProbability; so
   whatever the draw, the test u < q fails for q = 0 (Black) and succeeds
   for q = 1 (Accent).  Read on a one-cell grid right after a frame, where
   g_rngState is the value the frame's one fastRand call returned. *)
C4_DrawBelowOne ==
  pc = "render" /\ g_algorithm = 1 /\ Len(g_ambiguousIndices) = 1 =>
    LET u == fastRandFloat(g_rngState)
        p == g_ambiguousIndices[1]
    IN  /\ 0 <= u /\ u < 1000
        /\ CellBytes(g_scaledPixels, p) = ORANGE_RGBA
             <=> u < At(g_orangeProb, p)
        /\ CellBytes(g_scaledPixels, p) = BLACK_RGBA
             <=> ~(u < At(g_orangeProb, p))
        /\ \A q \in {0, 1000} : (u < q) <=> (q = 1000)

(* C7: when the image cannot be decoded, loadAndPrepareImage changes no
   classification array and no buffer, the engine stays Uninitialized, the
   load is not retried, ditherFrame and platformRender are never called,
   main goes from the load straight to the failure branch, and it ends with
   status 1 after one platformCleanup. *)
C7_LoadFailureIsFatal ==
  image = NoImage =>
    /\ g_pixelStates = <<>> /\ g_orangeProb = <<>>
    /\ g_ambiguousIndices = <<>> /\ g_scaledPixels = <<>>
    /\ g_scaledWidth = 0 /\ g_scaledHeight = 0
    /\ g_imgWidth = 0 /\ g_imgHeight = 0
    /\ ~Ready
    /\ calls.load <= 1 /\ calls.dither = 0 /\ calls.render = 0
    /\ pc \in {"load", "check", "fail", "done"}
    /\ pc \in {"check", "fail", "done"} => calls.load = 1
    /\ pc = "done" => exitStatus = 1 /\ calls.cleanup = 1
    /\ pc # "done" => exitStatus = -1 /\ calls.cleanup = 0
\* the process has ended after a failed decode
C7_Witness ==
  image = NoImage /\ pc = "done" /\ exitStatus = 1 /\ calls.load = 1

(* C8: the stop flag can be cleared at any point and is never set again; it
   is acted upon only at the top of a loop iteration: a ditherFrame that is
   about to run is followed by its platformRender and the end of the
   iteration whatever the flag, the loop is left only from its top with the
   flag cleared, at most one ditherFrame call starts after the flag was
   cleared, and once it is cleared main reaches its end through the
   cleanup with status 0 when the image had loaded. *)
StopSafe ==
  /\ calls.stopped <= 1
  /\ pc = "exit" => ~g_running
  /\ pc = "done" /\ Ready => exitStatus = 0 /\ calls.cleanup = 1
StopStep ==
  /\ ~g_running => ~g_running'
  /\ pc = "dither" => pc' \in {"dither", "render"}
  /\ pc = "render" => pc' \in {"render", "loop"}
  /\ pc \in {"poll", "gate", "sleep"} => pc' \notin {"exit", "done"}
  /\ pc # "exit" /\ pc' = "exit" => pc = "loop" /\ ~g_running
  /\ pc = "loop" /\ ~g_running => pc' \in {"loop", "exit"}
  /\ pc = "exit" => pc' \in {"exit", "done"}
C8_StopIsCooperative ==
  /\ []StopSafe
  /\ [][StopStep]_vars
  /\ (~g_running ~> pc = "done")
\* the flag was cleared inside an iteration whose frame still ran, and main
\* has ended
C8_Witness ==
  /\ pc = "done" /\ Ready /\ calls.stopped = 1
  /\ calls.dither = calls.render /\ calls.cleanup = 1

(* C9: within one loop iteration either a frame is due (cap 0, or elapsed
   >= the target interval) and exactly one ditherFrame runs, then exactly
   one platformRender, and lastFrameTime becomes the iteration's timestamp;
   or no frame is due and neither runs.  platformRender only ever runs
   right after the ditherFrame of the same iteration. *)
DueNow == g_maxFps = 0 \/ now - lastFrameTime >= TargetFrameTime
C9_OneFramePerDueIteration ==
  /\ pc = "dither" =>
       DueNow /\ calls.due /\ calls.iterDither = 0 /\ calls.iterRender = 0
  /\ pc = "render" =>
       /\ DueNow /\ calls.due /\ calls.last = "dither"
       /\ calls.iterDither = 1 /\ calls.iterRender = 0
  /\ pc = "sleep" =>
       ~DueNow /\ ~calls.due /\ calls.iterDither = 0 /\ calls.iterRender = 0
  /\ pc \in {"loop", "exit", "done"} /\ calls.due =>
       /\ calls.iterDither = 1 /\ calls.iterRender = 1
       /\ lastFrameTime = now
  /\ pc \in {"loop", "exit", "done"} /\ ~calls.due =>
       calls.iterDither = 0 /\ calls.iterRender = 0
  /\ calls.render = IF pc = "render" THEN calls.dither - 1 ELSE calls.dither
\* a throttled run that has slept in one iteration and produced frames in
\* others
C9_Witness ==
  /\ g_maxFps > 0 /\ pc = "loop" /\ calls.due
  /\ calls.dither = 2 /\ calls.render = 2 /\ now = 2

(* C10: with the classification, the configuration and the RNG seed fixed,
   the output buffer after k frames is the k-fold application of ditherFrame
   to the engine state the load leaves, whatever the wall-clock readings,
   the polling and the stop flag did in between (stated of the buffer as
   the load and each ditherFrame leave it, no other step changing it); so
   any two such runs agree after each of their first k frames. *)
LoadedEngine ==
  [pix |-> InitPixels(g_pixelStates), rng |-> RngSeed, time |-> 0,
   lastY |-> -1, cachedSine |-> 0, cachedChaos |-> 0, invWidth |-> 0]
RECURSIVE Replay(_)
Replay(k) == IF k = 0 THEN LoadedEngine ELSE DitherFrameOf(Replay(k - 1))
Replayed ==
  Ready /\ pc \in {"check", "render"} =>
    g_scaledPixels = Replay(calls.dither).pix
C10_BufferDeterminedByFrameCount ==
  /\ []Replayed
  /\ [][Ready /\ pc # "dither" =>
          UNCHANGED <<g_scaledPixels, classification, config>>]_vars
\* two frames at different wall-clock times under an animated strategy
C10_Witness ==
  /\ Ready /\ g_algorithm # 0 /\ g_ambiguousIndices # <<>>
  /\ calls.dither >= 2 /\ now > 0
  /\ g_scaledPixels # InitPixels(g_pixelStates)

(* C11 as stated: for every block size >= 1 and every screen size, once an
   image that decodes has been loaded the engine is Ready (the
   classification vectors are filled), main goes on to its loop, and the
   load is never handled as a load failure (no failure branch, no exit
   status 1). *)
C11_DecodedLoadIsReady ==
  image # NoImage /\ calls.load = 1 =>
    Ready /\ pc # "fail" /\ exitStatus # 1

(* C12: the uncertain index list holds exactly the cells whose state is
   Uncertain, each once, in strictly increasing cell index; no step after
   the load changes it; so a ditherFrame pass visits the cells in
   non-decreasing row order and, in the wave strategy, runs the
   "y != lastY" block (the sinf call) at most once for each row of the
   pass. *)
ListIsUncertainCells ==
  Ready =>
    /\ \A k \in 1..Len(g_ambiguousIndices) :
          /\ g_ambiguousIndices[k] \in Cells
          /\ At(g_pixelStates, g_ambiguousIndices[k]) = PIXEL_AMBIGUOUS
    /\ \A p \in Cells : At(g_pixelStates, p) = PIXEL_AMBIGUOUS => Listed(p)
    /\ \A k \in 1..(Len(g_ambiguousIndices) - 1) :
          g_ambiguousIndices[k] < g_ambiguousIndices[k + 1]
\* the engine state after the first k cells of the pass about to run
RECURSIVE Visited(_)
Visited(k) ==
  IF k = 0 THEN EngineState
  ELSE DitherCell(Visited(k - 1), g_ambiguousIndices[k])
\* the k-th cell of the pass finds y != lastY and calls sinf
SineComputedAt(k) == Row(g_ambiguousIndices[k]) # Visited(k - 1).lastY
PassByRows ==
  Ready /\ pc = "dither" /\ g_algorithm = 2 =>
    /\ \A k \in 1..(Len(g_ambiguousIndices) - 1) :
          Row(g_ambiguousIndices[k]) <= Row(g_ambiguousIndices[k + 1])
    /\ \A j, k \in 1..Len(g_ambiguousIndices) :
          j < k /\ SineComputedAt(j) /\ SineComputedAt(k) =>
            Row(g_ambiguousIndices[j]) # Row(g_ambiguousIndices[k])
C12_ListIsRowMajor ==
  /\ [](ListIsUncertainCells /\ PassByRows)
  /\ [][Ready => UNCHANGED g_ambiguousIndices]_vars
\* a wave pass over uncertain cells in two rows, one row holding several
C12_Witness ==
  /\ pc = "render" /\ g_algorithm = 2 /\ calls.dither >= 2
  /\ \E j, k \in 1..Len(g_ambiguousIndices) :
        Row(g_ambiguousIndices[j]) < Row(g_ambiguousIndices[k])
  /\ \E j, k \in 1..Len(g_ambiguousIndices) :
        j < k /\ Row(g_ambiguousIndices[j]) = Row(g_ambiguousIndices[k])
  /\ \E p \in Cells : ~Listed(p)

(* C13: in every state from the end of the load on, under every strategy
   and after any number of ditherFrame passes, the output buffer has four
   bytes per cell and every cell, Uncertain ones included, holds exactly
   BLACK_RGBA or ORANGE_RGBA. *)
C13_CellsHoldOneConstant ==
  Ready =>
    /\ Len(g_scaledPixels) = 4 * Len(g_pixelStates)
    /\ \A p \in Cells :
          CellBytes(g_scaledPixels, p) \in {BLACK_RGBA, ORANGE_RGBA}
\* after a pass that turned an uncertain cell Black and left another Accent
C13_Witness ==
  /\ Ready /\ pc = "render" /\ g_algorithm # 0
  /\ \E p, q \in Cells :
        /\ Listed(p) /\ CellBytes(g_scaledPixels, p) = BLACK_RGBA
        /\ Listed(q) /\ CellBytes(g_scaledPixels, q) = ORANGE_RGBA

\* the surface pixels, the bytes g_imageData shows at one, the bytes a
\* target cell shows once converted, and the surface pixels that read a cell
SurfacePixels == (0..(g_imgWidth - 1)) \X (0..(g_imgHeight - 1))
Shown(x, y) ==
  LET d == (y * g_imgWidth + x) * 4
  IN  <<At(g_imageData, d), At(g_imageData, d + 1),
        At(g_imageData, d + 2), At(g_imageData, d + 3)>>
CellShown(p) ==
  <<At(g_scaledPixels, 4 * p + 2), At(g_scaledPixels, 4 * p + 1),
    At(g_scaledPixels, 4 * p), 0>>
Covering(p) == {s \in SurfacePixels : SrcIdx(s[1], s[2]) = 4 * p}
\* the surface shows the current buffer: a frame has been rendered and no
\* pass has run since
Rendered == Ready /\ calls.render >= 1 /\ pc # "render"
ReadsInBuffer ==
  \A s \in SurfacePixels :
    SrcIdx(s[1], s[2]) >= 0 /\ SrcIdx(s[1], s[2]) + 3 < Len(g_scaledPixels)

(* C14 as stated: on every screen and for every block size, once a frame
   is rendered every surface pixel (x, y) shows the colour of target cell
   (x / blockSize, y / blockSize), every target cell is read by exactly
   blockSize * blockSize surface pixels, and every index read lies inside
   the output buffer. *)
C14_BlockMagnification ==
  Rendered =>
    /\ \A s \in SurfacePixels :
          /\ s[1] \div g_pixelSize < g_scaledWidth
          /\ s[2] \div g_pixelSize < g_scaledHeight
          /\ Shown(s[1], s[2]) =
               CellShown((s[2] \div g_pixelSize) * g_scaledWidth
                         + s[1] \div g_pixelSize)
    /\ \A p \in Cells : Cardinality(Covering(p)) = g_pixelSize * g_pixelSize
    /\ ReadsInBuffer

(* C14 amended: once a frame is rendered every surface pixel (x, y) shows
   the colour of target cell (min(x / blockSize, scaledWidth - 1),
   min(y / blockSize, scaledHeight - 1)); a target cell is read by a block
   of blockSize * blockSize surface pixels, widened by screenWidth mod
   blockSize columns when the cell is in the last column and by
   screenHeight mod blockSize rows when it is in the last row; and every
   index read lies inside the output buffer. *)
ClampedCell(x, y) ==
  LET cx == IF x \div g_pixelSize < g_scaledWidth
            THEN x \div g_pixelSize ELSE g_scaledWidth - 1
      cy == IF y \div g_pixelSize < g_scaledHeight
            THEN y \div g_pixelSize ELSE g_scaledHeight - 1
  IN  cy * g_scaledWidth + cx
BlockWidth(p) ==
  g_pixelSize + (IF Column(p) = g_scaledWidth - 1
                 THEN g_imgWidth % g_pixelSize ELSE 0)
BlockHeight(p) ==
  g_pixelSize + (IF Row(p) = g_scaledHeight - 1
                 THEN g_imgHeight % g_pixelSize ELSE 0)
C14_ClampedMagnification ==
  Rendered =>
    /\ \A s \in SurfacePixels :
          Shown(s[1], s[2]) = CellShown(ClampedCell(s[1], s[2]))
    /\ \A p \in Cells :
          Cardinality(Covering(p)) = BlockWidth(p) * BlockHeight(p)
    /\ ReadsInBuffer
\* a rendered frame of two cells of different colours across, with a
\* remainder column that shows the last cell
C14_Witness ==
  /\ Rendered /\ g_pixelSize = 2 /\ g_scaledWidth = 2
  /\ g_imgWidth % g_pixelSize = 1
  /\ CellShown(0) # CellShown(1)
  /\ Shown(4, 0) = CellShown(1)

(* C15: a ditherFrame pass leaves g_rngState unchanged under the static
   strategy and under the wave strategy with chaos = 0, and advances it by
   exactly one fastRand step per entry of the uncertain index list under
   the random strategy and under the wave strategy with chaos > 0 (by none
   when the list is empty); no other step of the program touches it. *)
\* t is the RNG state n fastRand calls after state s
RECURSIVE RandSteps(_, _, _)
RandSteps(s, n, t) ==
  IF n = 0 THEN s = t
  ELSE \E next \in {fastRand(s)} : RandSteps(next, n - 1, t)
DrawsPerFrame ==
  IF g_algorithm = 1 \/ (g_algorithm = 2 /\ g_chaos > 0)
  THEN Len(g_ambiguousIndices) ELSE 0
C15_RngStepsPerFrame ==
  [][IF pc = "dither" /\ pc' = "render"
     THEN RandSteps(g_rngState, DrawsPerFrame, g_rngState')
     ELSE UNCHANGED g_rngState]_vars
\* two wave passes with chaos over several uncertain cells
C15_Witness ==
  /\ pc = "render" /\ calls.dither = 2
  /\ g_algorithm = 2 /\ g_chaos > 0
  /\ Len(g_ambiguousIndices) >= 2
  /\ RandSteps(RngSeed, 2 * Len(g_ambiguousIndices), g_rngState)
  /\ ~RandSteps(RngSeed, 2 * Len(g_ambiguousIndices) - 1, g_rngState)

====
